---- MODULE Spec2Model ----
(***************************************************************************)
(* The authentication routes of src/src/pages/settings/jellyfin.tsx        *)
(* (authRoutes): POST /plex, GET /plex/unlink, POST /jellyfin, POST /local *)
(* and POST /logout, as a state machine over the user table, the settings  *)
(* and the sessions.  Every request is one action; what the provider       *)
(* clients answer is an input of the request.                              *)
(***************************************************************************)
EXTENDS Integers, Sequences, FiniteSets, TLC

(* ----------------------------- bounds ---------------------------------- *)
\* rows the user table may hold
MaxUsers == 2

(* ------------------------- program constants --------------------------- *)
\* Permission.ADMIN
ADMIN == 2
\* the value of settings.main.defaultPermissions (Permission.REQUEST)
DefaultPermissions == 32

(* ------------------------------ values --------------------------------- *)
\* 0 stands for null / undefined / '' in every nullable field
None == 0
\* the browser sessions that send requests
Sessions == {1}
\* e-mail addresses: 11 is address 1 written with capital letters
Emails == {1, 2, 11}
\* String.prototype.toLowerCase on an e-mail address
ToLowerCase(e) == e % 10
Passwords == {1, 2}
PlexIds == {1, 2}
Tokens == {1, 2}
JellyfinIds == {1, 2}
JellyfinNames == {1, 2}
ImageTags == {1}
ServerIds == {1}
\* host names: h + 10 is host h written with a trailing slash; the host
\* names a request may carry
Hostnames == {11, 12}
\* the host names the settings may hold when the server starts
ConfiguredHostnames == {1}
ExternalHostnames == {2}
\* the passwords and e-mail addresses a Jellyfin sign-in may carry
JellyfinPasswords == {1}
JellyfinEmails == {2}

\* gravatarUrl(email, ...): a URL made from the lower-cased address
gravatarUrl(email) == <<"gravatar", ToLowerCase(email), 0, 0>>
\* the thumb of a Plex account used as avatar
ThumbAvatar(thumb) == <<"thumb", thumb, 0, 0>>
\* '/os_logo_square.png'
DefaultAvatar == <<"logo", 0, 0, 0>>
NoAvatar == <<"none", 0, 0, 0>>

\* new User({...}): the fields a handler does not give are null
NewUser(id) ==
    [id |-> id, email |-> None, password |-> None, permissions |-> None,
     avatar |-> NoAvatar, username |-> None,
     plexId |-> None, plexToken |-> None, plexUsername |-> None,
     jellyfinUserId |-> None, jellyfinUsername |-> None,
     jellyfinAuthToken |-> None, jellyfinDeviceId |-> None,
     resetPasswordGuid |-> None, recoveryLinkExpirationDate |-> None]

\* the first of the rows that satisfy the test of a query, 0 when none does
\* (getOne, Array.prototype.find)
FirstIndex(rows) ==
    IF rows = {} THEN 0 ELSE CHOOSE i \in rows : \A j \in rows : i <= j

\* userRepository.save(user) of a new row: the next id is assigned
SaveNew(us, fields) == Append(us, [fields EXCEPT !.id = Len(us) + 1])

(* --------------------------- handler results --------------------------- *)
\* the provider calls a handler made, its reads of settings.main.newPlexLogin
\* and its saves whose failure does not end it with the answer to an error
\* (a save inside a try of its own, a save that is not awaited)
NoCalls ==
    [getUser |-> 0, checkUserAccess |-> 0, getUsers |-> 0, login |-> 0,
     newPlexLogin |-> 0, save |-> 0]

\* Reply with the session never bound
ReplyUnbound(us, st, status, message, uid, bind, calls) ==
    [users |-> us, settings |-> st, status |-> status, message |-> message,
     userId |-> uid, bind |-> None, calls |-> calls, deviceId |-> None,
     host |-> None]

\* what a handler leaves behind: the table, the settings, the answer, the user
\* it answers with and the user id it binds the session to (0: not bound)
Reply(us, st, status, message, uid, bind, calls) ==
    [users |-> us, settings |-> st, status |-> status, message |-> message,
     userId |-> uid, bind |-> bind, calls |-> calls, deviceId |-> None,
     host |-> None]

(* ------------------------------ POST /plex ----------------------------- *)
\* plextv.getUser() failed (the token is not accepted, the network is down)
PlexFailure ==
    [ok |-> FALSE,
     account |-> [id |-> None, email |-> None, username |-> None,
                  thumb |-> None, authToken |-> None]]
\* the accounts plextv.getUser() may resolve a token to; id 0: the id is
\* missing. The user name, the thumb and the token plex.tv reports for an
\* account go with its id
PlexAccounts ==
    {[id |-> i, email |-> e,
      username |-> IF i = None THEN 1 ELSE i,
      thumb |-> IF i = None THEN 1 ELSE i,
      authToken |-> IF i = None THEN 1 ELSE i] :
        i \in {None} \cup PlexIds, e \in Emails}
PlexOutcomes ==
    {PlexFailure} \cup {[ok |-> TRUE, account |-> a] : a \in PlexAccounts}

\* where user.plexId = :id or user.email = lower(account.email), getOne
PlexLookup(us, account) ==
    LET Match(u) ==
            \/ (account.id # None /\ u.plexId = account.id)
            \/ u.email = ToLowerCase(account.email)
    IN  FirstIndex({row \in 1..Len(us) : Match(us[row])})

\* PlexResolve with the lookup made for a signed-in session too
PlexResolveByLookup(us, reqUser, account) ==
    PlexLookup(us, account)

\* the user the request is about: the session's user, else the lookup
PlexResolve(us, reqUser, account) ==
    IF reqUser # None THEN reqUser ELSE PlexLookup(us, account)

\* PlexOwnAccount with the e-mail condition not looking at the
\* administrator's own link
PlexOwnAccountByEmailAlone(us, found, account) ==
    LET mainUser == us[1]
    IN  \/ account.id = mainUser.plexId
        \/ (found # None /\ us[found].id = 1 /\ us[found].plexId = None)
        \/ account.email = mainUser.email

\* the three conditions tested before mainPlexTv.checkUserAccess is called
PlexOwnAccount(us, found, account) ==
    LET mainUser == us[1]
    IN  \/ account.id = mainUser.plexId
        \/ (found # None /\ us[found].id = 1 /\ us[found].plexId = None)
        \/ (account.email = mainUser.email /\ mainUser.plexId = None)

\* the condition of the access policy (|| evaluates left to right)
PlexPermitted(us, found, account, access) ==
    \/ PlexOwnAccount(us, found, account)
    \/ access

\* PlexAdmin with the permissions of an ordinary user
PlexAdminAsUser(account) ==
    [NewUser(0) EXCEPT !.email = account.email,
                       !.plexUsername = account.username,
                       !.plexId = account.id,
                       !.plexToken = account.authToken,
                       !.permissions = DefaultPermissions,
                       !.avatar = ThumbAvatar(account.thumb)]

\* PlexAdmin without the link to the Plex account
PlexAdminNoLink(account) ==
    [NewUser(0) EXCEPT !.email = account.email,
                       !.plexUsername = account.username,
                       !.plexToken = account.authToken,
                       !.permissions = ADMIN,
                       !.avatar = ThumbAvatar(account.thumb)]

\* the administrator created from the first Plex sign-in
PlexAdmin(account) ==
    [NewUser(0) EXCEPT !.email = account.email,
                       !.plexUsername = account.username,
                       !.plexId = account.id,
                       !.plexToken = account.authToken,
                       !.permissions = ADMIN,
                       !.avatar = ThumbAvatar(account.thumb)]

\* the user created for a Plex account with access to the server
PlexNewUser(st, account) ==
    [NewUser(0) EXCEPT !.email = account.email,
                       !.plexUsername = account.username,
                       !.plexId = account.id,
                       !.plexToken = account.authToken,
                       !.permissions = st.main.defaultPermissions,
                       !.avatar = ThumbAvatar(account.thumb)]

\* PlexRefresh with the avatar kept
PlexRefreshKeepsAvatar(u, authToken, account) ==
    [u EXCEPT !.plexToken = authToken,
              !.plexId = account.id,
              !.plexUsername = account.username]

\* the Plex fields of an existing user refreshed
PlexRefresh(u, authToken, account) ==
    [u EXCEPT !.plexToken = authToken,
              !.plexId = account.id,
              !.avatar = ThumbAvatar(account.thumb),
              !.plexUsername = account.username]

\* PlexDenied with the user found saved before the policy is looked at
PlexDeniedAfterSave(us, st, found, authToken, account, calls) ==
    Reply(IF found # None
          THEN [us EXCEPT ![found] = PlexRefresh(us[found], authToken, account)]
          ELSE us,
          st, 403, "Access denied.", None, None, calls)

\* the answer to an account the access policy refuses
PlexDenied(us, st, found, authToken, account, calls) ==
    Reply(us, st, 403, "Access denied.", None, None, calls)

\* PlexNewLoginsRefused with the setting ignored
PlexNewLoginsAlwaysTaken(st) == FALSE

\* !settings.main.newPlexLogin: no user is created for an unimported account
PlexNewLoginsRefused(st) == ~st.main.newPlexLogin

\* the else branch of the handler: the table is not empty or a user was found
PlexPolicyBranch(us, st, found, authToken, account, access) ==
    LET asked == IF PlexOwnAccount(us, found, account) THEN 0 ELSE 1
        calls == [NoCalls EXCEPT !.getUser = 1, !.checkUserAccess = asked]
    IN  IF Len(us) = 0
        THEN \* findOneOrFail({ id: 1 }) throws
             Reply(us, st, 500, "Unable to authenticate.", None, None,
                   [NoCalls EXCEPT !.getUser = 1])
        ELSE IF account.id = None
        THEN Reply(us, st, 500, "Something went wrong. Try again.", None, None,
                   [NoCalls EXCEPT !.getUser = 1])
        ELSE IF ~PlexPermitted(us, found, account, access)
        THEN PlexDenied(us, st, found, authToken, account, calls)
        ELSE IF found # None
        THEN Reply([us EXCEPT ![found] = PlexRefresh(us[found], authToken, account)],
                   st, 200, "", found, found, calls)
        ELSE IF PlexNewLoginsRefused(st)
        THEN Reply(us, st, 403, "Access denied.", None, None,
                   [calls EXCEPT !.newPlexLogin = 1])
        ELSE Reply(SaveNew(us, PlexNewUser(st, account)), st, 200, "",
                   Len(us) + 1, Len(us) + 1, [calls EXCEPT !.newPlexLogin = 1])

\* authRoutes.post('/plex')
PostPlexHandler(us, st, reqUser, authToken, got, access) ==
    IF authToken = None
    THEN Reply(us, st, 500, "Authentication token required.", None, None, NoCalls)
    ELSE IF ~got.ok
    THEN Reply(us, st, 500, "Unable to authenticate.", None, None,
               [NoCalls EXCEPT !.getUser = 1])
    ELSE LET account == got.account
             found == PlexResolve(us, reqUser, account)
         IN  IF found = None /\ Len(us) = 0
             THEN Reply(SaveNew(us, PlexAdmin(account)), st, 200, "",
                        Len(us) + 1, Len(us) + 1, [NoCalls EXCEPT !.getUser = 1])
             ELSE PlexPolicyBranch(us, st, found, authToken, account, access)

(* --------------------------- GET /plex/unlink -------------------------- *)
\* User.isLocalUser: the user has a password set
isLocalUser(u) == u.password # None

\* User.isPlexUser: the user has a plexId
isPlexUser(u) == u.plexId # None

\* PlexCleared with the token kept
PlexClearedKeepsToken(u) ==
    [u EXCEPT !.plexId = None,
              !.avatar = gravatarUrl(u.email),
              !.plexUsername = None]

\* the Plex link of a user cleared
PlexCleared(u) ==
    [u EXCEPT !.plexId = None,
              !.plexToken = None,
              !.avatar = gravatarUrl(u.email),
              !.plexUsername = None]

\* authRoutes.get('/plex/unlink'), behind isAuthenticated()
PlexUnlinkHandler(us, st, reqUser) ==
    IF reqUser = None \/ reqUser > Len(us)
    THEN Reply(us, st, 500, "Unable to unlink plex account.", None, None, NoCalls)
    ELSE IF ~isLocalUser(us[reqUser])
    THEN Reply(us, st, 500, "Unable to unlink plex account.", None, None, NoCalls)
    ELSE Reply([us EXCEPT ![reqUser] = PlexCleared(us[reqUser])], st, 204, "",
               None, None, NoCalls)

(* ------------------------------ POST /local ---------------------------- *)
\* the stored form of a password (User.setPassword hashes it)
Hash(password) == 100 + password

\* User.passwordMatch: the supplied password compared with the stored hash
passwordMatch(u, password) == u.password # None /\ u.password = Hash(password)

\* parseInt of a string of decimal digits
RECURSIVE parseInt(_)
parseInt(digits) ==
    IF Len(digits) = 0 THEN 0
    ELSE 10 * parseInt(SubSeq(digits, 1, Len(digits) - 1)) + digits[Len(digits)]

\* an entry of the administrator's list of managed Plex users (account.$)
ManagedEntries ==
    [id : {<<1>>, <<2>>}, email : {None} \cup Emails, username : {1}, thumb : {1}]
\* mainPlexTv.getUsers(): it fails, or answers with a list
ManagedOutcomes ==
    {[ok |-> FALSE, list |-> <<>>], [ok |-> TRUE, list |-> <<>>]}
        \cup {[ok |-> TRUE, list |-> <<e>>] : e \in ManagedEntries}

\* plexUsersResponse.MediaContainer.User.find(...): the index of the first
\* entry whose e-mail is that of the user, compared in lower case; 0 when none
ManagedFind(list, u) ==
    LET Same(e) == e.email # None /\ ToLowerCase(e.email) = ToLowerCase(u.email)
    IN  FirstIndex({row \in 1..Len(list) : Same(list[row])})

\* LocalAdmin with the permissions of a new user
LocalAdminAsUser(email, password) ==
    [NewUser(0) EXCEPT !.email = email,
                       !.permissions = DefaultPermissions,
                       !.avatar = gravatarUrl(email),
                       !.password = Hash(password)]

\* the administrator created from the first local sign-in
LocalAdmin(email, password) ==
    [NewUser(0) EXCEPT !.email = email,
                       !.permissions = ADMIN,
                       !.avatar = gravatarUrl(email),
                       !.password = Hash(password)]

\* the Plex data of a managed account copied onto the local user
LocalEnriched(u, entry) ==
    [u EXCEPT !.plexId = parseInt(entry.id),
              !.avatar = ThumbAvatar(entry.thumb),
              !.email = entry.email,
              !.plexUsername = entry.username]

\* the handler once the user is created or the password has matched: the
\* silent linking of a Plex account, the access check of a linked user, the
\* session
\* LocalSignIn without the access check of a linked user
LocalSignInUnchecked(us, st, found, managed, access, saved, again) ==
    LET mainUser == us[1]
        user == us[found]
        tries == user.plexId = None /\ isPlexUser(mainUser)
        at == IF tries /\ managed.ok THEN ManagedFind(managed.list, user) ELSE 0
        asks1 == at # 0
        links == asks1 /\ access
        user1 == IF links THEN LocalEnriched(user, managed.list[at]) ELSE user
        us1 == IF links /\ saved THEN [us EXCEPT ![found] = user1] ELSE us
        calls == [NoCalls EXCEPT
                     !.getUsers = IF tries THEN 1 ELSE 0,
                     !.checkUserAccess = IF asks1 THEN 1 ELSE 0,
                     !.save = IF links THEN 1 ELSE 0]
    IN  Reply(us1, st, 200, "", found, found, calls)

\* saved: whether the save of the linked user goes through (a failure is
\* caught by the inner try and leaves the user linked in memory only);
\* access, again: the answers of the first and of the second call of
\* mainPlexTv.checkUserAccess
LocalSignIn(us, st, found, managed, access, saved, again) ==
    LET mainUser == us[1]
        user == us[found]
        tries == user.plexId = None /\ isPlexUser(mainUser)
        at == IF tries /\ managed.ok THEN ManagedFind(managed.list, user) ELSE 0
        asks1 == at # 0
        links == asks1 /\ access
        user1 == IF links THEN LocalEnriched(user, managed.list[at]) ELSE user
        us1 == IF links /\ saved THEN [us EXCEPT ![found] = user1] ELSE us
        asks2 == /\ isPlexUser(mainUser)
                 /\ user1.plexId # None
                 /\ user1.plexId # mainUser.plexId
        answer2 == IF asks1 THEN again ELSE access
        calls == [NoCalls EXCEPT
                     !.getUsers = IF tries THEN 1 ELSE 0,
                     !.checkUserAccess = (IF asks1 THEN 1 ELSE 0)
                                             + (IF asks2 THEN 1 ELSE 0),
                     !.save = IF links THEN 1 ELSE 0]
    IN  IF asks2 /\ ~answer2
        THEN Reply(us1, st, 403, "Access denied.", None, None, calls)
        ELSE Reply(us1, st, 200, "", found, found, calls)

\* LocalCredentialsRefused with the password never compared
LocalCredentialsRefusedUnknownOnly(us, found, password) ==
    found = None

\* !user || !(await user.passwordMatch(body.password))
LocalCredentialsRefused(us, found, password) ==
    found = None \/ ~passwordMatch(us[found], password)

\* authRoutes.post('/local')
PostLocalHandler(us, st, email, password, managed, access, saved, again) ==
    IF ~st.main.localLogin
    THEN Reply(us, st, 500, "Password sign-in is disabled.", None, None, NoCalls)
    ELSE IF email = None \/ password = None
    THEN Reply(us, st, 500,
               "You must provide both an email address and a password.",
               None, None, NoCalls)
    ELSE LET Same(u) == u.email = ToLowerCase(email)
             found == FirstIndex({row \in 1..Len(us) : Same(us[row])})
         IN  IF found = None /\ Len(us) = 0
             THEN LocalSignIn(SaveNew(us, LocalAdmin(email, password)), st,
                              Len(us) + 1, managed, access, saved, again)
             ELSE IF LocalCredentialsRefused(us, found, password)
             THEN Reply(us, st, 403, "Access denied.", None, None, NoCalls)
             ELSE LocalSignIn(us, st, found, managed, access, saved, again)

(* ----------------------------- POST /jellyfin -------------------------- *)
\* jellyfinserver.login() failed: with the message 'Unauthorized', or otherwise
NoJellyfinAccount ==
    [Id |-> None, Name |-> None, PrimaryImageTag |-> None, ServerId |-> None,
     AccessToken |-> None]
JellyfinUnauthorized ==
    [ok |-> FALSE, message |-> "Unauthorized", account |-> NoJellyfinAccount]
JellyfinFailure ==
    [ok |-> FALSE, message |-> "Network Error", account |-> NoJellyfinAccount]
\* the accounts jellyfinserver.login() may answer with (account.User and
\* AccessToken); the name and the image of an account go with the token
JellyfinAccounts ==
    {[Id |-> i, Name |-> k, PrimaryImageTag |-> IF k = 1 THEN None ELSE t,
      ServerId |-> v, AccessToken |-> k] :
        i \in JellyfinIds, k \in Tokens, t \in ImageTags, v \in ServerIds}
JellyfinOutcomes ==
    {JellyfinUnauthorized, JellyfinFailure}
        \cup {[ok |-> TRUE, message |-> "", account |-> a] : a \in JellyfinAccounts}

\* Buffer.from(`BOT_overseerr_${username}`).toString('base64')
DerivedDeviceId(username) == 100 + username

\* JellyfinHostname with the request's host taken first
JellyfinHostnameOfRequest(st, body) ==
    IF body.hostname # None THEN body.hostname ELSE st.jellyfin.hostname

\* the host the login is sent to: the configured one, else the request's
JellyfinHostname(st, body) ==
    IF st.jellyfin.hostname # None THEN st.jellyfin.hostname ELSE body.hostname

\* host.endsWith('/') ? host.slice(0, -1) : host
StripSlash(host) == IF host > 10 THEN host - 10 ELSE host

\* the host the avatar URLs are made with
JellyfinAvatarHost(st, hostname) ==
    StripSlash(IF st.jellyfin.externalHostname # None
               THEN st.jellyfin.externalHostname
               ELSE hostname)

\* JellyfinDeviceId with no look at the stored device ids
JellyfinDeviceIdDerived(us, body) ==
    DerivedDeviceId(body.username)

\* the device id resolved before the login: that of the user with the
\* request's user name as jellyfinUsername, else one derived from the name
JellyfinDeviceId(us, body) ==
    LET Named(u) == u.jellyfinUsername = body.username
        byName == FirstIndex({row \in 1..Len(us) : Named(us[row])})
    IN  IF byName # None THEN us[byName].jellyfinDeviceId
        ELSE DerivedDeviceId(body.username)

\* the avatar of a Jellyfin account
JellyfinAvatar(jellyfinHost, account) ==
    IF account.PrimaryImageTag # None
    THEN <<"jellyfin", jellyfinHost, account.Id, account.PrimaryImageTag>>
    ELSE DefaultAvatar

\* JellyfinResolve with no lookup of the account's id
JellyfinResolveSessionOnly(us, reqUser, account) ==
    IF reqUser # None THEN reqUser ELSE None

\* the user the request is about: the session's user, else the one with the
\* account's id as jellyfinUserId
JellyfinResolve(us, reqUser, account) ==
    LET Linked(u) == u.jellyfinUserId = account.Id
    IN  IF reqUser # None THEN reqUser
        ELSE FirstIndex({row \in 1..Len(us) : Linked(us[row])})

\* the Jellyfin fields of an existing user refreshed
JellyfinRefresh(u, account, deviceId, jellyfinHost) ==
    [u EXCEPT !.jellyfinAuthToken = account.AccessToken,
              !.jellyfinUserId = IF @ = None THEN account.Id ELSE @,
              !.jellyfinDeviceId = deviceId,
              !.avatar = JellyfinAvatar(jellyfinHost, account),
              !.jellyfinUsername = account.Name,
              !.username = IF @ = account.Name THEN None ELSE @]

\* JellyfinNewUser with the permissions of the administrator
JellyfinNewUserAsAdmin(st, body, account, deviceId, jellyfinHost) ==
    [NewUser(0) EXCEPT !.email = body.email,
                       !.jellyfinUsername = account.Name,
                       !.jellyfinUserId = account.Id,
                       !.jellyfinDeviceId = deviceId,
                       !.jellyfinAuthToken = account.AccessToken,
                       !.permissions = ADMIN,
                       !.avatar = JellyfinAvatar(jellyfinHost, account)]

\* the user created for a Jellyfin account
JellyfinNewUser(st, body, account, deviceId, jellyfinHost) ==
    [NewUser(0) EXCEPT !.email = body.email,
                       !.jellyfinUsername = account.Name,
                       !.jellyfinUserId = account.Id,
                       !.jellyfinDeviceId = deviceId,
                       !.jellyfinAuthToken = account.AccessToken,
                       !.permissions = st.main.defaultPermissions,
                       !.avatar = JellyfinAvatar(jellyfinHost, account)]

\* the settings after the first configuration of the host
JellyfinConfigured(st, body, account) ==
    IF st.jellyfin.hostname = None /\ body.hostname # None
    THEN [st EXCEPT !.jellyfin.hostname = body.hostname,
                    !.jellyfin.serverId = account.ServerId]
    ELSE st

\* JellyfinCaught without the answer to a missing e-mail address
JellyfinCaughtNoAddEmail(us, st, message, calls) ==
    IF message = "Unauthorized"
    THEN Reply(us, st, 401, "Unauthorized", None, None, calls)
    ELSE Reply(us, st, 500, "Something went wrong.", None, None, calls)

\* JellyfinCaught without the answer to refused credentials
JellyfinCaughtNoUnauthorized(us, st, message, calls) ==
    IF message = "add_email"
    THEN Reply(us, st, 406, "CREDENTIAL_ERROR_ADD_EMAIL", None, None, calls)
    ELSE Reply(us, st, 500, "Something went wrong.", None, None, calls)

\* the answer to an error caught by the handler
JellyfinCaught(us, st, message, calls) ==
    IF message = "Unauthorized"
    THEN Reply(us, st, 401, "Unauthorized", None, None, calls)
    ELSE IF message = "add_email"
    THEN Reply(us, st, 406, "CREDENTIAL_ERROR_ADD_EMAIL", None, None, calls)
    ELSE Reply(us, st, 500, "Something went wrong.", None, None, calls)

\* !settings.main.newPlexLogin: no user is created for an unimported account
JellyfinNewLoginsRefused(st) == ~st.main.newPlexLogin

\* the handler after a successful login to the server
JellyfinSignIn(us, st, reqUser, body, account, deviceId, jellyfinHost) ==
    LET found == JellyfinResolve(us, reqUser, account)
        called == [NoCalls EXCEPT !.login = 1]
    IN  IF found # None
        THEN Reply([us EXCEPT ![found] = JellyfinRefresh(us[found], account,
                                                         deviceId, jellyfinHost)],
                   JellyfinConfigured(st, body, account), 200, "", found, found,
                   called)
        ELSE IF JellyfinNewLoginsRefused(st)
        THEN Reply(us, st, 403, "Access denied.", None, None,
                   [called EXCEPT !.newPlexLogin = 1])
        ELSE IF body.email = None
        THEN \* throw new Error('add_email')
             JellyfinCaught(us, st, "add_email", [called EXCEPT !.newPlexLogin = 1])
        ELSE Reply(SaveNew(us, JellyfinNewUser(st, body, account, deviceId,
                                               jellyfinHost)),
                   st, 200, "", Len(us) + 1, Len(us) + 1,
                   [called EXCEPT !.newPlexLogin = 1])

\* authRoutes.post('/jellyfin')
PostJellyfinHandler(us, st, reqUser, body, got) ==
    IF body.username = None
    THEN Reply(us, st, 500, "You must provide an username", None, None, NoCalls)
    ELSE IF st.jellyfin.hostname = None /\ body.hostname = None
    THEN Reply(us, st, 500, "No hostname provided.", None, None, NoCalls)
    ELSE IF Len(us) = 0
    THEN \* findOneOrFail({ id: 1 }) throws
         JellyfinCaught(us, st, "EntityNotFound", NoCalls)
    ELSE LET hostname == JellyfinHostname(st, body)
             deviceId == JellyfinDeviceId(us, body)
             jellyfinHost == JellyfinAvatarHost(st, hostname)
             answer == IF ~got.ok
                       THEN JellyfinCaught(us, st, got.message,
                                           [NoCalls EXCEPT !.login = 1])
                       ELSE JellyfinSignIn(us, st, reqUser, body, got.account,
                                           deviceId, jellyfinHost)
         IN  \* what new JellyfinAPI(hostname, undefined, deviceId) was given
             [answer EXCEPT !.deviceId = deviceId, !.host = hostname]

(* ------------------------------ POST /logout --------------------------- *)
\* authRoutes.post('/logout'): req.session.destroy answers with an error or not
PostLogoutHandler(us, st, err) ==
    IF err
    THEN Reply(us, st, 500, "Something went wrong.", None, None, NoCalls)
    ELSE Reply(us, st, 200, "ok", None, None, NoCalls)

(* ------------------- POST /reset-password, and /:guid ------------------ *)
\* the values of resetPasswordGuid (randomUUID)
Guids == 1..(MaxUsers + 1)

\* a guid that no row has: guids are only compared with each other, so the
\* least of them stands for the one randomUUID draws
NewGuid(us) ==
    FirstIndex(Guids \ {us[row].resetPasswordGuid : row \in 1..Len(us)})

\* the shortest password POST /reset-password/:guid takes
MinPasswordLength == 8

\* req.body.password.length: password 1 has seven characters, password 2 eight
PasswordLength(password) == 6 + password

\* User.resetPassword(): a new guid, and a link that expires one day later;
\* the e-mail it sends is not part of the state
ResetPassword(u, guid, time) ==
    [u EXCEPT !.resetPasswordGuid = guid,
              !.recoveryLinkExpirationDate = time + 1]

\* PostResetPasswordHandler telling that no user has the address
PostResetPasswordHandlerTellsUnknown(us, st, email, guid, time, saved) ==
    IF email = None
    THEN Reply(us, st, 500, "Email address required.", None, None, NoCalls)
    ELSE LET Same(u) == u.email = ToLowerCase(email)
             found == FirstIndex({row \in 1..Len(us) : Same(us[row])})
         IN  IF found # None
             THEN Reply(IF saved
                        THEN [us EXCEPT
                                 ![found] = ResetPassword(us[found], guid, time)]
                        ELSE us,
                        st, 200, "ok", None, None, [NoCalls EXCEPT !.save = 1])
             ELSE Reply(us, st, 404, "User not found.", None, None, NoCalls)

\* authRoutes.post('/reset-password'); guid: the guid resetPassword draws,
\* time: the clock, saved: whether the save, which is not awaited, goes through
PostResetPasswordHandler(us, st, email, guid, time, saved) ==
    IF email = None
    THEN Reply(us, st, 500, "Email address required.", None, None, NoCalls)
    ELSE LET Same(u) == u.email = ToLowerCase(email)
             found == FirstIndex({row \in 1..Len(us) : Same(us[row])})
         IN  IF found # None
             THEN Reply(IF saved
                        THEN [us EXCEPT
                                 ![found] = ResetPassword(us[found], guid, time)]
                        ELSE us,
                        st, 200, "ok", None, None, [NoCalls EXCEPT !.save = 1])
             ELSE Reply(us, st, 200, "ok", None, None, NoCalls)

\* PasswordTooShort with the length not looked at
PasswordTooShortMissingOnly(password) ==
    password = None

\* !req.body.password || req.body.password?.length < 8
PasswordTooShort(password) ==
    password = None \/ PasswordLength(password) < MinPasswordLength

\* LinkExpired with the link still good at the time it expires
LinkExpiredAfterTheDay(u, time) ==
    u.recoveryLinkExpirationDate = None \/ u.recoveryLinkExpirationDate < time

\* !user.recoveryLinkExpirationDate || user.recoveryLinkExpirationDate <= new Date()
LinkExpired(u, time) ==
    u.recoveryLinkExpirationDate = None \/ u.recoveryLinkExpirationDate <= time

\* the new password set and the expiration date cleared; the guid stays
PasswordReset(u, password) ==
    [u EXCEPT !.password = Hash(password),
              !.recoveryLinkExpirationDate = None]

\* authRoutes.post('/reset-password/:guid')
PostResetPasswordGuidHandler(us, st, guid, password, time, saved) ==
    IF PasswordTooShort(password)
    THEN Reply(us, st, 500, "Password must be at least 8 characters long.",
               None, None, NoCalls)
    ELSE LET found ==
                 FirstIndex({row \in 1..Len(us) : us[row].resetPasswordGuid = guid})
         IN  IF found = None
             THEN Reply(us, st, 500, "Invalid password reset link.", None, None,
                        NoCalls)
             ELSE IF LinkExpired(us[found], time)
             THEN Reply(us, st, 500, "Invalid password reset link.", None, None,
                        NoCalls)
             ELSE Reply(IF saved
                        THEN [us EXCEPT
                                 ![found] = PasswordReset(us[found], password)]
                        ELSE us,
                        st, 200, "ok", None, None, [NoCalls EXCEPT !.save = 1])

(* -------------------------------- state -------------------------------- *)
\* users: the user table, row i has id i; settings: getSettings();
\* session: the userId of each session (0: none); req, resp: the request
\* being answered, with what the providers answered to it, and the response
\* to it; both are gone once the response is sent; now: the clock, in
\* days; flights: the sign-in requests whose handlers are under way, each at
\* one of its awaits
VARIABLES users, settings, session, req, resp, now, flights
vars == <<users, settings, session, req, resp, now, flights>>

NoBody ==
    [authToken |-> None, email |-> None, password |-> None, username |-> None,
     hostname |-> None]
NoRequest ==
    [op |-> "none", sid |-> 1, reqUser |-> None, body |-> NoBody,
     plex |-> PlexFailure, jellyfin |-> JellyfinFailure,
     managed |-> [ok |-> FALSE, list |-> <<>>], access |-> FALSE, err |-> FALSE,
     guid |-> None, saved |-> TRUE, again |-> FALSE]

\* the part of a handler's result that is the response
Response(r) ==
    [status |-> r.status, message |-> r.message, userId |-> r.userId,
     bind |-> r.bind, calls |-> r.calls, deviceId |-> r.deviceId,
     host |-> r.host, created |-> None]
NoResponse == Response(Reply(<<>>, None, 0, "", None, None, NoCalls))

\* the id of the row a handler added to the table, 0 when it added none
Created(before, after) == IF Len(after) > Len(before) THEN Len(after) ELSE None

\* the handlers under way, one per slot; none at the start
Slots == {1, 2}
NoFlight ==
    [at |-> "none", op |-> "none", sid |-> 1, email |-> None, password |-> None,
     account |-> PlexFailure.account, found |-> None, empty |-> FALSE,
     status |-> 0, userId |-> None, guid |-> None, row |-> NewUser(0)]
NoFlights == [k \in Slots |-> NoFlight]

\* the settings the server may be started with
InitialSettings ==
    [main : [localLogin : BOOLEAN, newPlexLogin : BOOLEAN,
             defaultPermissions : {DefaultPermissions}],
     jellyfin : [hostname : {None} \cup ConfiguredHostnames, serverId : {None},
                 externalHostname : {None} \cup ExternalHostnames]]

\* the server started with one of the settings of a set, the table empty
Started(configurations) ==
    /\ users = <<>>
    /\ settings \in configurations
    /\ session = [s \in Sessions |-> None]
    /\ req = NoRequest
    /\ resp = NoResponse
    /\ now = 0
    /\ flights = NoFlights

\* req.user: the user of the session (set by the checkUser middleware)
ReqUser(s) == session[s]

\* no request is being answered
Idle == req.op = "none"

\* the request with the answers of the providers that were asked: a provider
\* the handler did not call has answered nothing
Asked(request, calls) ==
    [request EXCEPT
        !.plex = IF calls.getUser > 0 THEN @ ELSE NoRequest.plex,
        !.access = IF calls.checkUserAccess > 0 THEN @ ELSE NoRequest.access,
        !.again = IF calls.checkUserAccess > 1 THEN @ ELSE NoRequest.again,
        !.saved = IF calls.save > 0 THEN @ ELSE NoRequest.saved,
        !.managed = IF calls.getUsers > 0 THEN @ ELSE NoRequest.managed,
        !.jellyfin = IF calls.login > 0 THEN @ ELSE NoRequest.jellyfin,
        !.guid = IF request.op = "reset" /\ calls.save = 0
                 THEN NoRequest.guid ELSE @]

\* a request answered: the table and the settings the handler leaves, the
\* session bound when the handler bound it
Answered(s, request, r) ==
    /\ Len(r.users) <= MaxUsers
    /\ users' = r.users
    /\ settings' = r.settings
    /\ session' = IF r.bind # None THEN [session EXCEPT ![s] = r.bind] ELSE session
    /\ req' = Asked(request, r.calls)
    /\ resp' = [Response(r) EXCEPT !.created = Created(users, r.users)]
    /\ UNCHANGED <<now, flights>>

\* a POST /plex request with a token, to which plex.tv answers with got and
\* the administrator's account, if asked, with access
PlexAnswered(s, authToken, got, access) ==
        Answered(s,
                 [NoRequest EXCEPT !.op = "plex", !.sid = s,
                                   !.reqUser = ReqUser(s),
                                   !.body.authToken = authToken,
                                   !.plex = got, !.access = access],
                 PostPlexHandler(users, settings, ReqUser(s), authToken, got,
                                 access))

\* a GET /plex/unlink request of a signed-in session
PlexUnlink ==
    \E s \in Sessions :
        /\ Idle
        /\ ReqUser(s) # None
        /\ Answered(s,
                    [NoRequest EXCEPT !.op = "unlink", !.sid = s,
                                      !.reqUser = ReqUser(s)],
                    PlexUnlinkHandler(users, settings, ReqUser(s)))

\* a POST /jellyfin request with a body, to which the server answers with got
JellyfinAnswered(s, body, got) ==
        Answered(s,
                 [NoRequest EXCEPT !.op = "jellyfin", !.sid = s,
                                   !.reqUser = ReqUser(s), !.body = body,
                                   !.jellyfin = got],
                 PostJellyfinHandler(users, settings, ReqUser(s), body, got))

\* a POST /local request with an address and a password, to which the
\* administrator's Plex account, if asked, answers with managed, access and
\* again, and in which the save of the linked user goes through or not
LocalAnswered(s, email, password, managed, access, saved, again) ==
        Answered(s,
                 [NoRequest EXCEPT !.op = "local", !.sid = s,
                                   !.reqUser = ReqUser(s),
                                   !.body.email = email,
                                   !.body.password = password,
                                   !.managed = managed, !.access = access,
                                   !.saved = saved, !.again = again],
                 PostLocalHandler(users, settings, email, password, managed,
                                  access, saved, again))

\* a POST /reset-password request for an address; guid is the guid
\* resetPassword draws
ResetAnswered(s, email, guid, saved) ==
        Answered(s,
                 [NoRequest EXCEPT !.op = "reset", !.sid = s,
                                   !.reqUser = ReqUser(s),
                                   !.body.email = email,
                                   !.guid = guid, !.saved = saved],
                 PostResetPasswordHandler(users, settings, email, guid, now,
                                          saved))

\* a POST /reset-password/:guid request with a password
ConsumeAnswered(s, guid, password, saved) ==
        Answered(s,
                 [NoRequest EXCEPT !.op = "consume", !.sid = s,
                                   !.reqUser = ReqUser(s),
                                   !.body.password = password,
                                   !.guid = guid, !.saved = saved],
                 PostResetPasswordGuidHandler(users, settings, guid, password,
                                              now, saved))

\* a POST /logout request
PostLogout ==
    \E s \in Sessions, err \in BOOLEAN :
        /\ Idle
        /\ users' = users
        /\ settings' = settings
        /\ session' = IF err THEN session ELSE [session EXCEPT ![s] = None]
        /\ req' = [NoRequest EXCEPT !.op = "logout", !.sid = s,
                                    !.reqUser = ReqUser(s), !.err = err]
        /\ resp' = Response(PostLogoutHandler(users, settings, err))
        /\ UNCHANGED <<now, flights>>

\* the response is sent: the request and the response are gone
Finish ==
    /\ ~Idle
    /\ req' = NoRequest
    /\ resp' = NoResponse
    /\ UNCHANGED <<users, settings, session, now, flights>>

(* ---------------- all the routes, a few inputs of each ----------------- *)
FewPlexOutcomes ==
    {PlexFailure}
        \cup {[ok |-> TRUE, account |-> a] :
                  a \in {b \in PlexAccounts : b.email \in {1, 2}}}
FewJellyfinBodies ==
    [authToken : {None}, email : {None, 2}, password : {1},
     username : {None, 1}, hostname : {None}]
FewJellyfinOutcomes ==
    {JellyfinUnauthorized, JellyfinFailure}
        \cup {[ok |-> TRUE, message |-> "",
               account |-> [Id |-> i, Name |-> 1, PrimaryImageTag |-> t,
                            ServerId |-> 1, AccessToken |-> 1]] :
                  i \in JellyfinIds, t \in {None}}
FewManagedOutcomes ==
    {[ok |-> FALSE, list |-> <<>>],
     [ok |-> TRUE,
      list |-> <<[id |-> <<2>>, email |-> 2, username |-> 1, thumb |-> 1]>>]}
\* password sign-in is enabled and the media server is configured
FewSettings ==
    {st \in InitialSettings :
        /\ st.main.localLogin
        /\ st.jellyfin.externalHostname = None
        /\ st.jellyfin.hostname # None}

\* plex.tv and the administrator's account answer to a request that has a
\* token; the media server to a request that has a user name; the
\* administrator's account to a local sign-in that has both its fields. Only
\* the administrator has a password here, so that no local sign-in comes to
\* save a linked user or to a second access check
PostPlex ==
    \E s \in Sessions, authToken \in {None, 1} :
        \E got \in (IF authToken = None THEN {PlexFailure} ELSE FewPlexOutcomes),
           access \in (IF authToken = None THEN {FALSE} ELSE BOOLEAN) :
            /\ Idle
            /\ PlexAnswered(s, authToken, got, access)

PostJellyfin ==
    \E s \in Sessions, body \in FewJellyfinBodies :
        \E got \in (IF body.username = None THEN {JellyfinFailure}
                    ELSE FewJellyfinOutcomes) :
            /\ Idle
            /\ JellyfinAnswered(s, body, got)

PostLocal ==
    \E s \in Sessions, email \in {None, 1, 2}, password \in {None} \cup Passwords :
        \E managed \in (IF email = None \/ password = None
                        THEN {NoRequest.managed} ELSE FewManagedOutcomes),
           access \in (IF email = None \/ password = None
                       THEN {FALSE} ELSE BOOLEAN) :
            /\ Idle
            /\ LocalAnswered(s, email, password, managed, access, TRUE, access)

Init == Started(FewSettings)

Next ==
    \/ PostPlex
    \/ PlexUnlink
    \/ PostJellyfin
    \/ PostLocal
    \/ PostLogout
    \/ Finish

Spec == Init /\ [][Next]_vars

(* ------------- the Plex and local routes, on all their inputs ---------- *)
PlexSettings ==
    {st \in InitialSettings :
        st.jellyfin.externalHostname = None /\ st.jellyfin.hostname = None}

PlexSignIn ==
    \E s \in Sessions, authToken \in {None, 1} :
        \E got \in (IF authToken = None THEN {PlexFailure} ELSE PlexOutcomes),
           access \in (IF authToken = None THEN {FALSE} ELSE BOOLEAN) :
            /\ Idle
            /\ PlexAnswered(s, authToken, got, access)

LocalSignInRequest ==
    \E s \in Sessions, email \in {None} \cup Emails,
       password \in {None} \cup Passwords :
        \E managed \in (IF email = None \/ password = None
                        THEN {NoRequest.managed} ELSE ManagedOutcomes),
           access \in (IF email = None \/ password = None
                       THEN {FALSE} ELSE BOOLEAN) :
            /\ Idle
            /\ LocalAnswered(s, email, password, managed, access, TRUE, access)

InitPlex == Started(PlexSettings)

NextPlex ==
    \/ PlexSignIn
    \/ PlexUnlink
    \/ LocalSignInRequest
    \/ PostLogout
    \/ Finish

SpecPlex == InitPlex /\ [][NextPlex]_vars

(* ------------ the Jellyfin route, on all its inputs -------------------- *)
JellyfinBodies ==
    [authToken : {None}, email : {None} \cup JellyfinEmails,
     password : JellyfinPasswords,
     username : {None} \cup JellyfinNames, hostname : {None} \cup Hostnames]
JellyfinSettings ==
    {st \in InitialSettings : st.main.localLogin /\ st.jellyfin.hostname = None}

JellyfinSignInRequest ==
    \E s \in Sessions, body \in JellyfinBodies :
        \E got \in (IF body.username = None THEN {JellyfinFailure}
                    ELSE JellyfinOutcomes) :
            /\ Idle
            /\ JellyfinAnswered(s, body, got)

\* a local sign-in of the administrator, the first of which creates it
AdminLocalSignIn ==
    \E s \in Sessions :
        /\ Idle
        /\ LocalAnswered(s, 1, 1, [ok |-> FALSE, list |-> <<>>], FALSE, TRUE,
                         FALSE)

InitJellyfin == Started(JellyfinSettings)

NextJellyfin ==
    \/ JellyfinSignInRequest
    \/ AdminLocalSignIn
    \/ PostLogout
    \/ Finish

SpecJellyfin == InitJellyfin /\ [][NextJellyfin]_vars

(* ----------- the reset routes, with the Plex and local routes ---------- *)
\* the last day of the clock
MaxTime == 1

\* password sign-in and the sign-in of new Plex users are enabled
ResetSettings ==
    {st \in PlexSettings : st.main.localLogin /\ st.main.newPlexLogin}

\* plex.tv resolves the token to one of two accounts
ResetPlexOutcomes ==
    {[ok |-> TRUE, account |-> a] :
         a \in {b \in PlexAccounts : b.id # None /\ b.email = b.id}}

\* the administrator's list of managed users: not fetched, empty, or with an
\* entry for the second address under one of two ids
ResetManagedOutcomes ==
    {[ok |-> FALSE, list |-> <<>>], [ok |-> TRUE, list |-> <<>>]}
        \cup {[ok |-> TRUE, list |-> <<e>>] :
                  e \in {f \in ManagedEntries : f.email = 2}}

ResetPlexSignIn ==
    \E s \in Sessions, got \in ResetPlexOutcomes, access \in BOOLEAN :
        /\ Idle
        /\ PlexAnswered(s, 1, got, access)

RequestReset ==
    \E s \in Sessions, email \in {None, 2}, saved \in BOOLEAN :
        /\ Idle
        /\ ResetAnswered(s, email, NewGuid(users), saved)

ConsumeReset ==
    \E s \in Sessions, guid \in Guids, password \in {None} \cup Passwords,
       saved \in BOOLEAN :
        /\ Idle
        /\ ConsumeAnswered(s, guid, password, saved)

ResetLocalSignIn ==
    \E s \in Sessions, email \in {2}, password \in {2} :
        \E managed \in ResetManagedOutcomes, access \in BOOLEAN,
           saved \in BOOLEAN, again \in BOOLEAN :
            /\ Idle
            /\ LocalAnswered(s, email, password, managed, access, saved, again)

\* a day goes by between two requests
Tick ==
    /\ Idle
    /\ now < MaxTime
    /\ now' = now + 1
    /\ UNCHANGED <<users, settings, session, req, resp, flights>>

InitReset == Started(ResetSettings)

NextReset ==
    \/ ResetPlexSignIn
    \/ RequestReset
    \/ ConsumeReset
    \/ ResetLocalSignIn
    \/ PlexUnlink
    \/ PostLogout
    \/ Tick
    \/ Finish

SpecReset == InitReset /\ [][NextReset]_vars

(* ------- sign-in requests whose handlers run at the same time ---------- *)
\* a handler is at "looked" once its query for the user has answered, at
\* "counted" once userRepository.count() has answered 0 to it, at "done" once
\* it has answered; what a handler does after a count that is not 0, or after
\* the save of the administrator, is taken as one step, in which the save of
\* a linked user goes through and the administrator's account gives one answer

\* the handler of slot k has answered with the result r
Landed(k, r) ==
    /\ Len(r.users) <= MaxUsers
    /\ users' = r.users
    /\ settings' = r.settings
    /\ session' = IF r.bind # None
                  THEN [session EXCEPT ![flights[k].sid] = r.bind]
                  ELSE session
    /\ flights' = [flights EXCEPT ![k].at = "done", ![k].status = r.status,
                                  ![k].userId = r.userId]
    /\ UNCHANGED <<req, resp, now>>

\* POST /plex: plex.tv has resolved the token, the query for the user answers
PlexLooks ==
    \E k \in Slots, s \in Sessions, got \in ResetPlexOutcomes :
        /\ flights[k].at = "none"
        /\ flights' =
               [flights EXCEPT
                   ![k] = [NoFlight EXCEPT
                              !.at = "looked", !.op = "plex", !.sid = s,
                              !.account = got.account,
                              !.found = PlexResolve(users, ReqUser(s),
                                                    got.account)]]
        /\ UNCHANGED <<users, settings, session, req, resp, now>>

\* POST /local: the query for the user answers
LocalLooks ==
    \E k \in Slots, s \in Sessions, email \in {1, 2}, password \in {2} :
        /\ flights[k].at = "none"
        /\ settings.main.localLogin
        /\ flights' =
               [flights EXCEPT
                   ![k] = [NoFlight EXCEPT
                              !.at = "looked", !.op = "local", !.sid = s,
                              !.email = email, !.password = password,
                              !.found =
                                  FirstIndex({row \in 1..Len(users) :
                                      users[row].email = ToLowerCase(email)})]]
        /\ UNCHANGED <<users, settings, session, req, resp, now>>

\* !user && !(await userRepository.count()): no user was found and the count
\* answers 0
CountsNone ==
    \E k \in Slots :
        /\ flights[k].at = "looked"
        /\ flights[k].found = None
        /\ Len(users) = 0
        /\ flights' = [flights EXCEPT ![k].at = "counted", ![k].empty = TRUE]
        /\ UNCHANGED <<users, settings, session, req, resp, now>>

\* a user was found or the count does not answer 0: the rest of the handler,
\* with the user its query found
CountsSome ==
    \E k \in Slots, managed \in FewManagedOutcomes, access \in BOOLEAN :
        LET f == flights[k]
        IN  /\ f.at = "looked"
            /\ ~(f.found = None /\ Len(users) = 0)
            /\ Landed(k,
                      IF f.op = "plex"
                      THEN PlexPolicyBranch(users, settings, f.found, 1,
                                            f.account, access)
                      ELSE IF LocalCredentialsRefused(users, f.found, f.password)
                      THEN Reply(users, settings, 403, "Access denied.", None,
                                 None, NoCalls)
                      ELSE LocalSignIn(users, settings, f.found, managed,
                                       access, TRUE, access))

\* the handler that counted no user saves the administrator and goes on to
\* its answer
SavesAdmin ==
    \E k \in Slots, managed \in FewManagedOutcomes, access \in BOOLEAN :
        LET f == flights[k]
        IN  /\ f.at = "counted"
            /\ Landed(k,
                      IF f.op = "plex"
                      THEN Reply(SaveNew(users, PlexAdmin(f.account)),
                                 settings, 200, "", Len(users) + 1,
                                 Len(users) + 1, [NoCalls EXCEPT !.getUser = 1])
                      ELSE LocalSignIn(SaveNew(users,
                                               LocalAdmin(f.email, f.password)),
                                       settings, Len(users) + 1, managed,
                                       access, TRUE, access))

\* the response of a handler is sent
Lands ==
    \E k \in Slots :
        /\ flights[k].at = "done"
        /\ flights' = [flights EXCEPT ![k] = NoFlight]
        /\ UNCHANGED <<users, settings, session, req, resp, now>>

InitRace == Started(ResetSettings)

NextRace ==
    \/ PlexLooks
    \/ LocalLooks
    \/ CountsNone
    \/ CountsSome
    \/ SavesAdmin
    \/ Lands

SpecRace == InitRace /\ [][NextRace]_vars

(* ------- reset links consumed by handlers that run at the same time ---- *)
\* a handler of POST /reset-password/:guid is at "found" once its query has
\* answered with a user whose link has not expired, and awaits setPassword

\* the test of the password and the query for the user of the guid; row is
\* the user as the query read it
ConsumeFinds ==
    \E k \in Slots, s \in Sessions, guid \in Guids, password \in Passwords :
        LET found ==
                FirstIndex({row \in 1..Len(users) :
                                users[row].resetPasswordGuid = guid})
            flight == [NoFlight EXCEPT !.op = "consume", !.sid = s,
                                       !.guid = guid, !.password = password]
        IN  /\ flights[k].at = "none"
            /\ flights' =
                   [flights EXCEPT
                       ![k] = IF PasswordTooShort(password) \/ found = None
                              THEN [flight EXCEPT !.at = "done", !.status = 500]
                              ELSE IF LinkExpired(users[found], now)
                              THEN [flight EXCEPT !.at = "done", !.status = 500,
                                                  !.found = found]
                              ELSE [flight EXCEPT !.at = "found",
                                                  !.found = found,
                                                  !.row = users[found]]]
            /\ UNCHANGED <<users, settings, session, req, resp, now>>

\* setPassword has answered: the user the query read is saved with the new
\* password and without the expiration date, and the request is answered
ConsumeSaves ==
    \E k \in Slots :
        LET f == flights[k]
        IN  /\ f.at = "found"
            /\ users' = [users EXCEPT ![f.found] = PasswordReset(f.row, f.password)]
            /\ flights' = [flights EXCEPT ![k].at = "done", ![k].status = 200]
            /\ UNCHANGED <<settings, session, req, resp, now>>

InitConsume == Started(ResetSettings)

NextConsume ==
    \/ ResetPlexSignIn
    \/ RequestReset
    \/ Finish
    \/ ConsumeFinds
    \/ ConsumeSaves
    \/ Lands
    \/ Tick

SpecConsume == InitConsume /\ [][NextConsume]_vars

(* ======================= the properties checked ======================== *)
\* a step in which the handler of a route answers a request
Handles(op) == Idle /\ req'.op = op

\* the request being answered carried credentials its provider did not
\* refuse: plex.tv resolved the token; password sign-in is enabled and both
\* fields of the local sign-in are there; the Jellyfin request is well formed
\* and the server, if it was asked, accepted the login
Accepted ==
    \/ req.op = "plex" /\ req.plex.ok
    \/ /\ req.op = "local"
       /\ settings.main.localLogin
       /\ req.body.email # None
       /\ req.body.password # None
    \/ /\ req.op = "jellyfin"
       /\ req.body.username # None
       /\ resp.message # "No hostname provided."
       /\ (resp.calls.login = 0 \/ req.jellyfin.ok)

\* the response answers with a newly created administrator that has id 1
AdminCreated ==
    /\ resp.status = 200
    /\ resp.userId = 1
    /\ Len(users) = 1
    /\ users[1].id = 1
    /\ users[1].permissions = ADMIN

PolicyDenies ==
    \/ /\ Handles("plex")
       /\ req'.plex.ok
       /\ req'.plex.account.id # None
       /\ Len(users) > 0
       /\ LET account == req'.plex.account
              found == PlexResolve(users, req'.reqUser, account)
          IN  \/ ~PlexPermitted(users, found, account, req'.access)
              \/ found = None /\ ~settings.main.newPlexLogin
    \/ /\ Handles("jellyfin")
       /\ req'.jellyfin.ok
       /\ JellyfinResolve(users, req'.reqUser, req'.jellyfin.account) = None
       /\ ~settings.main.newPlexLogin

\* C2: a POST /plex or POST /jellyfin request that the access policy denies
\* is answered 403 and leaves the user table as it was; no 403 of the two
\* routes goes with a change of the table.
C2_DeniedChangesNothing ==
    [][/\ PolicyDenies => (resp'.status = 403 /\ users' = users)
       /\ ((Handles("plex") \/ Handles("jellyfin")) /\ resp'.status = 403)
              => users' = users]_vars

\* a Plex sign-in of an account matched to an existing user has been denied
\* after the administrator's account reported no access
C2_Witness ==
    /\ req.op = "plex"
    /\ resp.status = 403
    /\ resp.calls.checkUserAccess = 1
    /\ ~req.access
    /\ PlexResolve(users, req.reqUser, req.plex.account) # None

\* the four conditions of the Plex access policy, for the account a step
\* resolved, the user the request is about and what checkUserAccess answered
PlexPolicyHolds ==
    LET account == req'.plex.account
        found == PlexResolve(users, req'.reqUser, account)
        mainUser == users[1]
    IN  \/ account.id # None /\ account.id = mainUser.plexId
        \/ found # None /\ users[found].id = 1 /\ users[found].plexId = None
        \/ account.email = mainUser.email /\ mainUser.plexId = None
        \/ resp'.calls.checkUserAccess = 1 /\ req'.access

\* the handler went past the access policy: it signed the user in, or it
\* went on to look at the setting for new sign-ins
PassesPlexPolicy == resp.status = 200 \/ resp.calls.newPlexLogin = 1

\* what C3 says of a step
PlexPolicyDecides ==
    /\ PassesPlexPolicy' <=> PlexPolicyHolds
    /\ ~PlexPolicyHolds =>
           resp'.status = 403 /\ resp'.message = "Access denied."

\* C3 as stated: in POST /plex on a non-empty user table the account passes
\* the access policy exactly when one of the four conditions holds, and the
\* answer is 403 'Access denied.' when none holds.
C3_PolicyAsStated ==
    [][(Handles("plex") /\ req'.plex.ok /\ Len(users) > 0)
           => PlexPolicyDecides]_vars

\* C3 amended: in POST /plex on a non-empty user table, for an account that
\* carries a Plex id, the account passes the access policy exactly when one
\* of the four conditions holds, and the answer is 403 'Access denied.' when
\* none holds.
C3_PlexPolicy ==
    [][(/\ Handles("plex")
        /\ req'.plex.ok
        /\ Len(users) > 0
        /\ req'.plex.account.id # None)
           => PlexPolicyDecides]_vars

\* an account with the administrator's e-mail address has been denied: the
\* administrator is linked to another Plex account and reported no access
C3_Witness ==
    /\ req.op = "plex"
    /\ resp.status = 403
    /\ resp.message = "Access denied."
    /\ resp.calls.newPlexLogin = 0
    /\ req.plex.account.email = users[1].email
    /\ users[1].plexId # None
    /\ users[1].plexId # req.plex.account.id

\* a POST /local request of a step, on a non-empty table, carries an address
\* and a password, and no user with that address (letter case aside) has that
\* password
LocalCredentialsFail ==
    /\ Handles("local")
    /\ Len(users) > 0
    /\ req'.body.email # None
    /\ req'.body.password # None
    /\ \A i \in 1..Len(users) :
           ToLowerCase(users[i].email) = ToLowerCase(req'.body.email)
               => ~passwordMatch(users[i], req'.body.password)

\* C4 as stated: every POST /local request on a non-empty user table whose
\* address belongs to no user, or whose password does not match, is answered
\* 403 and binds no session.
C4_AlwaysDenied ==
    [][LocalCredentialsFail
           => (resp'.status = 403 /\ session' = session)]_vars

\* C4 amended: such a request is never answered 200, binds no session and
\* changes no user; with password sign-in enabled it is answered 403.
C4_LocalDenied ==
    [][LocalCredentialsFail
           => /\ resp'.status # 200
              /\ session' = session
              /\ users' = users
              /\ settings.main.localLogin => resp'.status = 403]_vars

\* a local sign-in with the address of a user and a wrong password has been
\* answered 403
C4_Witness ==
    /\ req.op = "local"
    /\ resp.status = 403
    /\ resp.calls.checkUserAccess = 0
    /\ \E i \in 1..Len(users) :
           /\ users[i].email = ToLowerCase(req.body.email)
           /\ users[i].password # None
           /\ ~passwordMatch(users[i], req.body.password)

\* the provider accepted the credentials of a step's request and its account
\* matches no user: none by plexId or e-mail, none by jellyfinUserId
NoLocalMatch ==
    \/ /\ Handles("plex")
       /\ req'.plex.ok
       /\ PlexLookup(users, req'.plex.account) = None
    \/ /\ Handles("jellyfin")
       /\ req'.jellyfin.ok
       /\ LET Linked(u) == u.jellyfinUserId = req'.jellyfin.account.Id
          IN  FirstIndex({row \in 1..Len(users) : Linked(users[row])}) = None

\* C5 as stated: with new sign-ins switched off, a POST /plex or POST
\* /jellyfin request whose account matches no user is denied and creates no
\* user, on every path.
C5_NeverAllowed ==
    [][(NoLocalMatch /\ ~settings.main.newPlexLogin)
           => (resp'.status # 200 /\ users' = users)]_vars

\* C5 amended: with new sign-ins switched off and a non-empty user table, a
\* request of no signed-in session whose account matches no user is answered
\* 403 (500 when the Plex account carries no id), changes no user and binds
\* no session.
C5_NewLoginsGate ==
    [][(/\ NoLocalMatch
        /\ ~settings.main.newPlexLogin
        /\ Len(users) > 0
        /\ req'.reqUser = None)
           => /\ resp'.status \in {403, 500}
              /\ resp'.status = 500 =>
                     (req'.op = "plex" /\ req'.plex.account.id = None)
              /\ users' = users
              /\ session' = session]_vars

\* a Plex account that passed the access policy and matched no user has been
\* denied because new sign-ins are switched off
C5_Witness ==
    /\ req.op = "plex"
    /\ req.reqUser = None
    /\ resp.status = 403
    /\ resp.calls.newPlexLogin = 1
    /\ ~settings.main.newPlexLogin
    /\ resp.created = None

\* the server accepted the login of a step's POST /jellyfin request, no user
\* has the account's id and the body carries no e-mail address
JellyfinUnmatchedNoEmail ==
    /\ Handles("jellyfin")
    /\ req'.jellyfin.ok
    /\ req'.body.email = None
    /\ LET Linked(u) == u.jellyfinUserId = req'.jellyfin.account.Id
       IN  FirstIndex({row \in 1..Len(users) : Linked(users[row])}) = None

\* the answer that asks for an e-mail address; nothing else has changed
AddEmailAnswered ==
    /\ resp'.status = 406
    /\ resp'.message = "CREDENTIAL_ERROR_ADD_EMAIL"
    /\ users' = users
    /\ session' = session

\* C6 as stated: a POST /jellyfin request whose login succeeds, whose account
\* matches no user and whose body carries no e-mail address is answered 406
\* CREDENTIAL_ERROR_ADD_EMAIL, creates no user and binds no session.
C6_AlwaysAddEmail ==
    [][JellyfinUnmatchedNoEmail => AddEmailAnswered]_vars

\* C6 amended: the same of a request of no signed-in session made while new
\* sign-ins are enabled.
C6_AddEmail ==
    [][(/\ JellyfinUnmatchedNoEmail
        /\ settings.main.newPlexLogin
        /\ req'.reqUser = None)
           => AddEmailAnswered]_vars

\* a Jellyfin sign-in without an e-mail address has been answered 406
C6_Witness ==
    /\ req.op = "jellyfin"
    /\ req.jellyfin.ok
    /\ req.body.email = None
    /\ resp.status = 406
    /\ resp.message = "CREDENTIAL_ERROR_ADD_EMAIL"
    /\ session[req.sid] = None

\* a step's POST /jellyfin request with a user name, a password and a host
\* name, made with the administrator present and new sign-ins enabled; the
\* login succeeds and no user has the account's id
JellyfinFirstSignIn ==
    /\ Handles("jellyfin")
    /\ Len(users) > 0
    /\ users[1].id = 1
    /\ settings.main.newPlexLogin
    /\ req'.body.username # None
    /\ req'.body.password # None
    /\ req'.body.hostname # None
    /\ req'.jellyfin.ok
    /\ LET Linked(u) == u.jellyfinUserId = req'.jellyfin.account.Id
       IN  FirstIndex({row \in 1..Len(users) : Linked(users[row])}) = None

\* the step added a user for the Jellyfin account to the table
JellyfinUserCreated ==
    /\ resp'.status = 200
    /\ Len(users') = Len(users) + 1
    /\ SubSeq(users', 1, Len(users)) = users
    /\ LET u == users'[Len(users')]
           account == req'.jellyfin.account
       IN  /\ resp'.userId = u.id
           /\ u.jellyfinUserId = account.Id
           /\ u.permissions = settings.main.defaultPermissions
           /\ account.PrimaryImageTag = None => u.avatar = DefaultAvatar

\* C7 as stated: with the administrator present and new sign-ins enabled, a
\* POST /jellyfin request with only a user name, a password and a host name,
\* whose login succeeds and whose account matches no user, creates a user
\* with the account's id, the default permissions and, the account having no
\* image, the default avatar.
C7_CreatedWithoutEmail ==
    [][(JellyfinFirstSignIn /\ req'.body.email = None)
           => JellyfinUserCreated]_vars

\* C7 amended: the same of a request of no signed-in session whose body also
\* carries an e-mail address.
C7_CreatedWithEmail ==
    [][(/\ JellyfinFirstSignIn
        /\ req'.body.email # None
        /\ req'.reqUser = None)
           => JellyfinUserCreated]_vars

\* a Jellyfin sign-in has created the second user, with the default avatar
C7_Witness ==
    /\ req.op = "jellyfin"
    /\ req.body.hostname # None
    /\ resp.status = 200
    /\ resp.created = 2
    /\ users[2].jellyfinUserId = req.jellyfin.account.Id
    /\ users[2].permissions = DefaultPermissions
    /\ users[2].avatar = DefaultAvatar

\* C8: once a POST /jellyfin request has signed a user in, the same request
\* sent again (by the same session, and by another session without a user
\* when the first had none) signs the same user in and adds no user; after
\* each of the two the user's jellyfinUsername is the account's name and the
\* avatar the one made from the account.
C8_RepeatedLogin ==
    (req.op = "jellyfin" /\ resp.status = 200) =>
        LET account == req.jellyfin.account
            uid == resp.userId
            Latest(us, host) ==
                /\ us[uid].jellyfinUsername = account.Name
                /\ us[uid].avatar =
                       JellyfinAvatar(JellyfinAvatarHost(settings, host), account)
            SameUser(again) ==
                /\ again.status = 200
                /\ again.userId = uid
                /\ Len(again.users) = Len(users)
                /\ Latest(again.users, again.host)
        IN  /\ Latest(users, resp.host)
            /\ SameUser(PostJellyfinHandler(users, settings, session[req.sid],
                                            req.body, req.jellyfin))
            /\ req.reqUser = None =>
                   SameUser(PostJellyfinHandler(users, settings, None,
                                                req.body, req.jellyfin))

\* a Jellyfin sign-in of no signed-in session has created a user whose
\* account has an image
C8_Witness ==
    /\ req.op = "jellyfin"
    /\ req.reqUser = None
    /\ resp.status = 200
    /\ resp.created # None
    /\ req.jellyfin.account.PrimaryImageTag # None
    /\ users[resp.userId].avatar # DefaultAvatar

\* C9: a POST /plex request with a token plex.tv resolves, made while the
\* user table is empty, creates a user with the ADMIN permissions and the
\* account's Plex id, without a call of checkUserAccess and without a look
\* at the setting for new sign-ins, and binds the session to the new user.
C9_PlexBootstrap ==
    [][(Handles("plex") /\ req'.plex.ok /\ users = <<>>)
           => /\ resp'.status = 200
              /\ Len(users') = 1
              /\ users'[1].permissions = ADMIN
              /\ users'[1].plexId = req'.plex.account.id
              /\ resp'.calls.checkUserAccess = 0
              /\ resp'.calls.newPlexLogin = 0
              /\ session'[req'.sid] = users'[1].id]_vars

\* the first Plex sign-in has created the administrator although new
\* sign-ins are switched off
C9_Witness ==
    /\ req.op = "plex"
    /\ resp.created = 1
    /\ ~settings.main.newPlexLogin
    /\ users[1].permissions = ADMIN
    /\ users[1].plexId # None
    /\ users[1].plexId = req.plex.account.id
    /\ session[req.sid] = 1

\* nothing but the request and the response has changed in a step
NothingChanged ==
    /\ users' = users
    /\ settings' = settings
    /\ session' = session

\* C10: when plextv.getUser fails POST /plex answers 500; when the Jellyfin
\* login fails POST /jellyfin answers 401 for refused credentials and 500
\* otherwise; the provider was called once, and the users, the settings and
\* the sessions are as they were.
C10_ProviderFailure ==
    [][/\ (Handles("plex") /\ req'.body.authToken # None /\ ~req'.plex.ok)
           => /\ resp'.status = 500
              /\ resp'.calls.getUser = 1
              /\ NothingChanged
       /\ (Handles("jellyfin") /\ resp'.calls.login > 0 /\ ~req'.jellyfin.ok)
           => /\ resp'.status =
                     IF req'.jellyfin.message = "Unauthorized" THEN 401 ELSE 500
              /\ resp'.calls.login = 1
              /\ NothingChanged]_vars

\* a Jellyfin sign-in with credentials the server refused has been answered
\* 401
C10_Witness ==
    /\ req.op = "jellyfin"
    /\ ~req.jellyfin.ok
    /\ req.jellyfin.message = "Unauthorized"
    /\ resp.calls.login = 1
    /\ resp.status = 401

\* the rows of the table other than row u are as they were, and no row is
\* added or removed
OthersUntouched(u) ==
    /\ Len(users') = Len(users)
    /\ \A i \in 1..Len(users) : i # u => users'[i] = users[i]

\* the account fields of row u are as they were
AccountKept(u) ==
    /\ users'[u].id = users[u].id
    /\ users'[u].email = users[u].email
    /\ users'[u].password = users[u].password
    /\ users'[u].permissions = users[u].permissions

\* C14: GET /plex/unlink of a session user with a password clears the user's
\* plexId, plexToken and plexUsername, keeps its id, email, password and
\* permissions and answers 204; of a session user without a password it
\* answers 500 and changes no row; no unlink removes a row.
C14_Unlink ==
    [][Handles("unlink") =>
           LET u == req'.reqUser
           IN  /\ Len(users') = Len(users)
               /\ IF users[u].password # None
                  THEN /\ resp'.status = 204
                       /\ users'[u].plexId = None
                       /\ users'[u].plexToken = None
                       /\ users'[u].plexUsername = None
                       /\ AccountKept(u)
                       /\ OthersUntouched(u)
                  ELSE /\ resp'.status = 500
                       /\ users' = users]_vars

\* a user with a password has been unlinked
C14_Witness ==
    /\ req.op = "unlink"
    /\ resp.status = 204
    /\ users[req.reqUser].password # None
    /\ users[req.reqUser].plexId = None
    /\ users[req.reqUser].plexToken = None
    /\ users[req.reqUser].avatar = gravatarUrl(users[req.reqUser].email)

\* C16: a POST /plex request of a session signed in as U resolves, updates
\* and returns U and no other row, also when another row has the account's
\* plexId or e-mail address; no row is added.
C16_SessionUser ==
    [][(Handles("plex") /\ req'.reqUser # None /\ req'.plex.ok) =>
           LET U == req'.reqUser
               account == req'.plex.account
           IN  /\ OthersUntouched(U)
               /\ resp'.status = 200 =>
                      /\ resp'.userId = U
                      /\ session'[req'.sid] = U
                      /\ users'[U].plexId = account.id
                      /\ users'[U].plexUsername = account.username
                      /\ users'[U].avatar = ThumbAvatar(account.thumb)
               /\ resp'.status # 200 => users' = users]_vars

\* the session's user has been linked to an account whose plexId another row
\* has
C16_Witness ==
    /\ req.op = "plex"
    /\ req.reqUser # None
    /\ resp.status = 200
    /\ resp.userId = req.reqUser
    /\ users[req.reqUser].plexId = req.plex.account.id
    /\ \E j \in 1..Len(users) :
           j # req.reqUser /\ users[j].plexId = req.plex.account.id

\* C17 as stated: in POST /plex without a session, when one user has the
\* account's plexId and another user has the account's e-mail address, the
\* user that is signed in is the one with the plexId.
C17_PlexIdFirst ==
    [][(/\ Handles("plex")
        /\ req'.reqUser = None
        /\ req'.plex.ok
        /\ req'.plex.account.id # None
        /\ resp'.status = 200
        /\ \E a, b \in 1..Len(users) :
               /\ a # b
               /\ users[a].plexId = req'.plex.account.id
               /\ users[b].plexId # req'.plex.account.id
               /\ users[b].email = ToLowerCase(req'.plex.account.email))
           => users[resp'.userId].plexId = req'.plex.account.id]_vars

\* an existing user is resolved by a step's POST /plex request, for an
\* account with an id, and one of the conditions of the access policy holds
PlexRefreshApproved ==
    /\ Handles("plex")
    /\ req'.plex.ok
    /\ req'.plex.account.id # None
    /\ Len(users) > 0
    /\ PlexResolve(users, req'.reqUser, req'.plex.account) # None
    /\ PlexPolicyHolds

\* the resolved user is answered with, its Plex fields are those of the
\* account and the token given, and nothing else has changed
PlexRowRefreshed(token) ==
    LET u == PlexResolve(users, req'.reqUser, req'.plex.account)
        account == req'.plex.account
    IN  /\ resp'.status = 200
        /\ resp'.userId = u
        /\ users'[u].plexToken = token
        /\ users'[u].plexId = account.id
        /\ users'[u].avatar = <<"thumb", account.thumb, 0, 0>>
        /\ users'[u].plexUsername = account.username
        /\ AccountKept(u)
        /\ OthersUntouched(u)

\* no existing user is signed in by a step's POST /plex request unless one of
\* the conditions of the access policy holds
PlexPolicyRevalidated ==
    (/\ Handles("plex")
     /\ req'.plex.ok
     /\ Len(users) > 0
     /\ resp'.status = 200
     /\ PlexResolve(users, req'.reqUser, req'.plex.account) # None)
        => PlexPolicyHolds

\* C18 as stated: when POST /plex resolves an existing user and the access
\* policy approves, the user's plexToken, plexId, avatar and plexUsername
\* are those of the account plex.tv answered with, its id, email, password
\* and permissions and the other rows are unchanged, and the policy is
\* evaluated on every such sign-in.
C18_RefreshedFromAccount ==
    [][/\ PlexRefreshApproved => PlexRowRefreshed(req'.plex.account.authToken)
       /\ PlexPolicyRevalidated]_vars

\* C18 amended: the same, with the plexToken being the token the request
\* carried.
C18_Refreshed ==
    [][/\ PlexRefreshApproved => PlexRowRefreshed(req'.body.authToken)
       /\ PlexPolicyRevalidated]_vars

\* a user with a Plex link has signed in again after the administrator's
\* account reported access; the token kept is the request's, not the one
\* plex.tv reported
C18_Witness ==
    /\ req.op = "plex"
    /\ resp.status = 200
    /\ resp.created = None
    /\ resp.calls.checkUserAccess = 1
    /\ users[resp.userId].plexToken = req.body.authToken
    /\ req.plex.account.authToken # req.body.authToken

\* the rows that have the address of a step's request, compared as the
\* handlers compare it
RowsWithEmail ==
    {i \in 1..Len(users) : users[i].email = ToLowerCase(req'.body.email)}

\* C11: POST /reset-password with an address answers 200 with the same body
\* whether or not a user has the address; it signs nobody in.
C11_SameAnswer ==
    [][(Handles("reset") /\ req'.body.email # None) =>
           /\ resp'.status = 200
           /\ resp'.message = "ok"
           /\ resp'.userId = None
           /\ resp'.created = None
           /\ session' = session
           /\ RowsWithEmail = {} => users' = users]_vars

\* a reset has been asked for an address that no user has, in a table that
\* is not empty, and answered 200
C11_Witness ==
    /\ req.op = "reset"
    /\ req.body.email # None
    /\ resp.status = 200
    /\ Len(users) > 0
    /\ \A i \in 1..Len(users) : users[i].email # ToLowerCase(req.body.email)

\* a step's POST /reset-password/:guid request has a password of eight
\* characters or more
ConsumesWithPassword ==
    /\ Handles("consume")
    /\ req'.body.password # None
    /\ PasswordLength(req'.body.password) >= MinPasswordLength

\* C12: POST /reset-password/:guid with a password that is long enough is
\* answered 500 with one and the same message when no user has the guid and
\* when the user that has it has a link that is expired or cleared; the
\* table is left as it is.
C12_InvalidLink ==
    [][(/\ ConsumesWithPassword
        /\ \A i \in 1..Len(users) :
               users[i].resetPasswordGuid = req'.guid =>
                   \/ users[i].recoveryLinkExpirationDate = None
                   \/ users[i].recoveryLinkExpirationDate <= now)
           => /\ resp'.status = 500
              /\ resp'.message = "Invalid password reset link."
              /\ users' = users
              /\ session' = session]_vars

\* a link has been refused on the day it expires
C12_Witness ==
    /\ req.op = "consume"
    /\ resp.status = 500
    /\ resp.message = "Invalid password reset link."
    /\ \E i \in 1..Len(users) :
           /\ users[i].resetPasswordGuid = req.guid
           /\ users[i].recoveryLinkExpirationDate = now

\* C13: POST /reset-password/:guid without a password, or with one of fewer
\* than eight characters, is answered with the error about the length of the
\* password whatever the guid is, and no user's password, guid or expiration
\* date changes.
C13_ShortPassword ==
    [][(/\ Handles("consume")
        /\ \/ req'.body.password = None
           \/ PasswordLength(req'.body.password) < MinPasswordLength)
           => /\ resp'.status = 500
              /\ resp'.message = "Password must be at least 8 characters long."
              /\ users' = users]_vars

\* a password of seven characters has been refused although the guid is that
\* of a link that has not expired
C13_Witness ==
    /\ req.op = "consume"
    /\ req.body.password # None
    /\ resp.status = 500
    /\ resp.message = "Password must be at least 8 characters long."
    /\ \E i \in 1..Len(users) :
           /\ users[i].resetPasswordGuid = req.guid
           /\ users[i].recoveryLinkExpirationDate > now

\* a step's POST /local request has the password of the user f, the
\* administrator is a Plex user, and password sign-in is enabled
LocalPasswordOf(f) ==
    /\ Handles("local")
    /\ settings.main.localLogin
    /\ req'.body.email # None
    /\ req'.body.password # None
    /\ f \in RowsWithEmail
    /\ \A i \in RowsWithEmail : f <= i
    /\ users[f].password = Hash(req'.body.password)
    /\ users[1].plexId # None

\* C19: a POST /local request with the right password of a user whose plexId
\* is not the administrator's, the administrator being a Plex user, asks
\* the administrator's account whether that plexId has access; it is
\* answered 200 and bound to the session if it has, 403 with the session as
\* it was if it has not.
C19_LinkedUserChecked ==
    [][\A f \in 1..Len(users) :
           (/\ LocalPasswordOf(f)
            /\ users[f].plexId # None
            /\ users[f].plexId # users[1].plexId)
               => /\ resp'.calls.checkUserAccess = 1
                  /\ users' = users
                  /\ IF req'.access
                     THEN /\ resp'.status = 200
                          /\ resp'.userId = f
                          /\ session'[req'.sid] = f
                     ELSE /\ resp'.status = 403
                          /\ session' = session]_vars

\* a linked user with the right password has been refused: the
\* administrator's account answered that the user has no access
C19_Witness ==
    /\ req.op = "local"
    /\ resp.status = 403
    /\ resp.calls.checkUserAccess = 1
    /\ ~req.access
    /\ \E f \in 1..Len(users) :
           /\ users[f].email = ToLowerCase(req.body.email)
           /\ users[f].password = Hash(req.body.password)
           /\ users[f].plexId # None
           /\ users[f].plexId # users[1].plexId

\* C20 as stated: a POST /local request with the right password of a user
\* that has no Plex link, the administrator being a Plex user, is answered
\* 200 and bound to the session whenever the silent linking does not go
\* through: the list of managed users is not fetched, no entry has the
\* user's address, the account reports no access, or the save fails.
C20_EnrichmentNeverFailsLogin ==
    [][\A f \in 1..Len(users) :
           (/\ LocalPasswordOf(f)
            /\ users[f].plexId = None
            /\ users'[f].plexId = None)
               => /\ resp'.status = 200
                  /\ resp'.userId = f
                  /\ session'[req'.sid] = f]_vars

\* the handlers of the two slots, of the routes op1 and op2, have both
\* counted no user and both answered 200, and the two rows are administrators
BothAdministrators(op1, op2) ==
    /\ flights[1].op = op1
    /\ flights[2].op = op2
    /\ \A k \in Slots :
           /\ flights[k].at = "done"
           /\ flights[k].empty
           /\ flights[k].status = 200
    /\ Len(users) = 2
    /\ users[1].permissions = ADMIN
    /\ users[2].permissions = ADMIN
    /\ flights[1].userId # flights[2].userId

\* C15: a first sign-in whose handler has counted no user saves a user with
\* the permissions ADMIN whatever the table holds by then, and leaves the
\* rows it holds as they are: nothing between the count and the save looks
\* at the table again. The Plex sign-in is answered 200 for that user.
C15_SavesAfterCount ==
    [][\A k \in Slots :
           (flights[k].at = "counted" /\ flights'[k].at = "done")
               => /\ Len(users') = Len(users) + 1
                  /\ users'[Len(users')].permissions = ADMIN
                  /\ \A i \in 1..Len(users) : users'[i] = users[i]
                  /\ flights[k].op = "plex" =>
                         /\ flights'[k].status = 200
                         /\ flights'[k].userId = Len(users')]_vars

\* a Plex and a local first sign-in have both created an administrator
C15_Witness == BothAdministrators("plex", "local")

\* the first sign-ins of two Plex accounts have both created an administrator
TwoPlexAdministrators == BothAdministrators("plex", "plex")

\* a step's POST /jellyfin request is answered 200, with a host name in the
\* request and none in the settings
JellyfinBootstrap ==
    /\ Handles("jellyfin")
    /\ resp'.status = 200
    /\ settings.jellyfin.hostname = None
    /\ req'.body.hostname # None

\* C21 as stated: a POST /jellyfin request answered 200, made with a host
\* name while none is configured, leaves the settings with that host name
\* and with the server id the account reported, whether the user was
\* matched or created.
C21_HostPersisted ==
    [][JellyfinBootstrap =>
           /\ settings'.jellyfin.hostname = req'.body.hostname
           /\ settings'.jellyfin.serverId = req'.jellyfin.account.ServerId]_vars

\* C22: the host a POST /jellyfin request's login is sent to is the
\* configured host name when there is one and the request's otherwise,
\* whatever the external host name is; once a host name is configured no
\* login changes it or the server id.
C22_ConnectionHost ==
    [][Handles("jellyfin") =>
           /\ resp'.calls.login = 1 =>
                  resp'.host = IF settings.jellyfin.hostname # None
                               THEN settings.jellyfin.hostname
                               ELSE req'.body.hostname
           /\ settings.jellyfin.hostname # None =>
                  settings'.jellyfin = settings.jellyfin
           /\ settings'.jellyfin.externalHostname =
                  settings.jellyfin.externalHostname]_vars

\* a login has been sent to the configured host although the request named
\* another one, an external host name being configured too
C22_Witness ==
    /\ req.op = "jellyfin"
    /\ resp.calls.login = 1
    /\ resp.status = 200
    /\ req.body.hostname # None
    /\ req.body.hostname # settings.jellyfin.hostname
    /\ resp.host = settings.jellyfin.hostname
    /\ settings.jellyfin.externalHostname # None
    /\ resp.host # settings.jellyfin.externalHostname

\* a step's POST /jellyfin request is answered 200 for the user u
JellyfinSignsIn(u) ==
    /\ Handles("jellyfin")
    /\ resp'.status = 200
    /\ resp'.userId = u

\* C23 as stated: the device id a POST /jellyfin login is made with is the
\* device id stored on the user that signs in, when it has one, and is not
\* empty; it is the one stored on that user after the login.
C23_SameDeviceId ==
    [][\A u \in 1..Len(users') :
           JellyfinSignsIn(u) =>
               /\ resp'.deviceId # None
               /\ users'[u].jellyfinDeviceId = resp'.deviceId
               /\ (u <= Len(users) /\ users[u].jellyfinDeviceId # None) =>
                      resp'.deviceId = users[u].jellyfinDeviceId]_vars

\* the rows that have the user name of a step's request as jellyfinUsername
RowsWithJellyfinName ==
    {i \in 1..Len(users) : users[i].jellyfinUsername = req'.body.username}

\* C23 amended: the device id a POST /jellyfin login is made with is settled
\* before the login from the request's user name alone: it is the device id
\* stored on the user that has that name as jellyfinUsername, or, when no
\* user has it, the value derived from the name; it is never empty, and it
\* is the one stored on the user that signs in.
C23_DeviceId ==
    [][(Handles("jellyfin") /\ resp'.calls.login = 1) =>
           /\ resp'.deviceId # None
           /\ \A i \in RowsWithJellyfinName :
                  (\A j \in RowsWithJellyfinName : i <= j) =>
                      resp'.deviceId = users[i].jellyfinDeviceId
           /\ RowsWithJellyfinName = {} =>
                  resp'.deviceId = 100 + req'.body.username
           /\ \A u \in 1..Len(users') :
                  JellyfinSignsIn(u) =>
                      users'[u].jellyfinDeviceId = resp'.deviceId]_vars

\* a user has signed in again under the name it has as jellyfinUsername,
\* with the device id it had, which is not the one derived from that name
C23_Witness ==
    /\ req.op = "jellyfin"
    /\ resp.status = 200
    /\ resp.created = None
    /\ users[resp.userId].jellyfinUsername = req.body.username
    /\ users[resp.userId].jellyfinDeviceId = resp.deviceId
    /\ resp.deviceId # DerivedDeviceId(req.body.username)

\* C24: a POST /plex, POST /jellyfin or POST /local request answered 200
\* leaves the session's userId equal to the id of the user it answers with,
\* a row of the table; a request answered otherwise is answered 401, 403,
\* 406 or 500 and leaves the session's userId as it was.
C24_SessionBound ==
    [][(Handles("plex") \/ Handles("jellyfin") \/ Handles("local")) =>
           IF resp'.status = 200
           THEN /\ resp'.userId \in 1..Len(users')
                /\ users'[resp'.userId].id = resp'.userId
                /\ session' = [session EXCEPT ![req'.sid] = resp'.userId]
           ELSE /\ resp'.status \in {401, 403, 406, 500}
                /\ session' = session]_vars

\* a session signed in as one user has been bound to another by a local
\* sign-in
C24_Witness ==
    /\ req.op = "local"
    /\ resp.status = 200
    /\ req.reqUser # None
    /\ req.reqUser # resp.userId
    /\ session[req.sid] = resp.userId

\* C25 as stated: once a POST /reset-password/:guid request has changed the
\* password with a guid, no other request with that guid changes it again
\* before a new reset is asked for, a request under way at the same time
\* included: a handler that comes to its save when the link of its guid has
\* already been used answers 500 and leaves the table as it is.
C25_UsedOnce ==
    [][\A k \in Slots :
           (/\ flights[k].op = "consume"
            /\ flights[k].at # "done"
            /\ flights'[k].at = "done"
            /\ \E i \in 1..Len(users) :
                   /\ users[i].resetPasswordGuid = flights'[k].guid
                   /\ users[i].recoveryLinkExpirationDate = None)
               => /\ flights'[k].status = 500
                  /\ users' = users]_vars

\* C26 as stated: no two rows of the table have the same plexId, unless it
\* is null.
C26_UniquePlexIds ==
    \A i, j \in 1..Len(users) :
        (i # j /\ users[i].plexId # None) => users[i].plexId # users[j].plexId

\* C27 as stated: after a POST /jellyfin request answered 200, the
\* jellyfinUserId, the jellyfinUsername and the jellyfinAuthToken of the
\* user it answers with are those of the account that has just logged in,
\* also when the user is the session's.
C27_FieldsOfAccount ==
    [][\A u \in 1..Len(users') :
           JellyfinSignsIn(u) =>
               /\ users'[u].jellyfinUserId = req'.jellyfin.account.Id
               /\ users'[u].jellyfinUsername = req'.jellyfin.account.Name
               /\ users'[u].jellyfinAuthToken =
                      req'.jellyfin.account.AccessToken]_vars

====
